---- MODULE Spec2Model ----
(***************************************************************************)
(* A model of the vector index of the document search service             *)
(* (backend/vector_store.py) and of the places of backend/main.py that    *)
(* read and write it.                                                      *)
(*                                                                         *)
(* VectorStore has two implementations behind the flag use_mock: a pair   *)
(* of in-process dictionaries (mock_vectors, mock_documents) and a        *)
(* ChromaDB collection.  main.py constructs it with USE_MOCK_SERVICES,    *)
(* which is True; both are modelled, chosen once in Init.                 *)
(*                                                                         *)
(* Floating point scores are modelled in fixed point (hundredths).        *)
(***************************************************************************)
EXTENDS Integers, Sequences, FiniteSets, TLC

VARIABLES
    use_mock,        \* VectorStore.use_mock
    dup_raises,      \* the ChromaDB build rejects an add of an existing id (else it ignores it)
    mock_vectors,    \* VectorStore.mock_vectors: dict chunk_id -> embedding, in insertion order
    mock_documents,  \* VectorStore.mock_documents: dict chunk_id -> doc_info, in insertion order
    collection,      \* the ChromaDB collection "documents": rows in insertion order
    running,         \* the add_document / delete_document call in flight (threads only)
    deleted,         \* history: the ids delete_document returned True for, not added since
    writes,          \* history: the number of add_document and delete_document calls so far
    last,            \* the last call that returned, and what it returned
    document_store,  \* main.py document_store: the metadata records, in insertion order
    issued,          \* the document ids store_document has generated so far
    response,        \* the response of the last request a handler of main.py answered
    mock_document_tags,  \* main.py mock_document_tags: the (document_id, tag_id) pairs, in order
    doc_text,        \* the text handed to DocumentProcessor._split_text
    chunk_size,      \* DocumentProcessor.chunk_size
    chunk_overlap,   \* DocumentProcessor.chunk_overlap
    doc_chunks       \* what _split_text returned for doc_text

\* The variables of the handlers of main.py and of the text splitter.
handler_vars == <<document_store, issued, response, mock_document_tags>>

splitter_vars == <<doc_text, chunk_size, chunk_overlap, doc_chunks>>

vars == <<use_mock, dup_raises, mock_vectors, mock_documents, collection, running,
          deleted, writes, last, handler_vars, splitter_vars>>

(***************************************************************************)
(* Bounds and input domains.                                               *)
(***************************************************************************)
MaxChunks == 2
MaxWrites == 3

DocumentIds == {"d1", "d2"}
Queries == {"q1", "q2"}
Limits == {1, 2}

\* Caller metadata: an ordinary field, and fields named like the two the store
\* sets itself.
TxtMetadata == [file_type |-> "txt"]
ClashMetadata == [document_id |-> "d2", chunk_index |-> 7]
Metadatas == {TxtMetadata, ClashMetadata}

\* filter_criteria: None (the empty mapping here) or one key.
NoFilter == <<>>
Filters == {NoFilter, [file_type |-> "pdf"], [document_id |-> "d1"]}

\* The chunk lists handed to add_document: the empty list, and for every
\* length up to MaxChunks the texts "A.", "B.", "A.", ... and "B.", "A.", ...
ChunksFrom(first, n) ==
    [j \in 1..n |-> IF (j % 2 = 1) = (first = "A.") THEN "A." ELSE "B."]

ChunkLists == {ChunksFrom(first, n) : first \in {"A.", "B."}, n \in 0..MaxChunks}

(***************************************************************************)
(* Python dictionaries keep insertion order: a dict is a sequence of       *)
(* [key, value] entries with distinct keys.                                *)
(***************************************************************************)
DictKeys(d) == {d[j].key : j \in 1..Len(d)}

DictHas(d, k) == k \in DictKeys(d)

DictGet(d, k) == d[CHOOSE j \in 1..Len(d) : d[j].key = k].value

\* d[k] = v: an existing key keeps its place, a new key goes last.
DictSet(d, k, v) ==
    IF DictHas(d, k)
    THEN [j \in 1..Len(d) |-> IF d[j].key = k THEN [key |-> k, value |-> v] ELSE d[j]]
    ELSE Append(d, [key |-> k, value |-> v])

\* del d[k]
DictDel(d, k) == SelectSeq(d, LAMBDA e : e.key # k)

(***************************************************************************)
(* Embeddings and scores.                                                  *)
(***************************************************************************)
\* An embedding drawn without np.random.seed(hash_val): the draw continues
\* the stream of the generator, so the vector is a matter of the calls made
\* before (of whether a search has just drawn from it), not of the text.
MockEmbeddingUnseeded(text) ==
    IF last.op = "search" THEN <<4, 3>> ELSE <<3, 4>>

\* _mock_embedding: a vector that is a function of the text alone (the hash
\* of the text seeds the generator); components are non-negative.
MockEmbedding(text) ==
    CASE text = "A." -> <<3, 4>>
      [] text = "B." -> <<4, 3>>
      [] text = "q1" -> <<5, 0>>
      [] text = "q2" -> <<3, 4>>
      [] OTHER -> <<0, 5>>

Dot(v, w) == v[1] * w[1] + v[2] * w[2]

ISqrt(n) == CHOOSE r \in 0..n : r * r <= n /\ (r + 1) * (r + 1) > n

Norm(v) == ISqrt(Dot(v, v))

\* _calculate_mock_similarity: cosine similarity, in hundredths.
CalculateMockSimilarity(query_vector, doc_vector) ==
    LET dot_product == Dot(query_vector, doc_vector)
        norm1 == Norm(query_vector)
        norm2 == Norm(doc_vector)
    IN  IF norm1 = 0 \/ norm2 = 0 THEN 0
        ELSE (dot_product * 100) \div (norm1 * norm2)

\* The embedding function of the ChromaDB collection (its default model): a
\* function of the text alone.
ChromaEmbedding(text) ==
    CASE text = "A." -> <<3, 4>>
      [] text = "B." -> <<4, 3>>
      [] text = "q1" -> <<5, 0>>
      [] text = "q2" -> <<3, 4>>
      [] OTHER -> <<0, 5>>

\* The distance ChromaDB reports for a row: squared L2 distance between the
\* embeddings of the query and of the row's text, in hundredths of the
\* squared norm.
ChromaDistance(query, text) ==
    LET q == ChromaEmbedding(query)
        t == ChromaEmbedding(text)
        dx == q[1] - t[1]
        dy == q[2] - t[2]
    IN  ((dx * dx + dy * dy) * 100) \div 25

(***************************************************************************)
(* Chunk identifiers.                                                      *)
(***************************************************************************)
\* An identifier built without the separator: f"{document_id}{i}"
ChunkIdNoSeparator(document_id, i) == document_id \o ToString(i)

\* f"{document_id}_{i}"
ChunkId(document_id, i) == document_id \o "_" \o ToString(i)

(***************************************************************************)
(* Sorting.  Python's sorted() and list.sort() are stable, also with       *)
(* reverse=True: entries with equal keys keep their order.                 *)
(***************************************************************************)
\* The place of entry j when the entries are put in ascending order of
\* their keys (keys[j] is the key of entry j), equal keys in their old order.
RankAsc(keys, j) ==
    1 + Cardinality({i \in 1..Len(keys) : keys[i] < keys[j]})
      + Cardinality({i \in 1..(j - 1) : keys[i] = keys[j]})

\* sorted(s, key=...), keys[j] being the key of s[j].
SortedAsc(s, keys) ==
    [p \in 1..Len(s) |-> s[CHOOSE j \in 1..Len(s) : RankAsc(keys, j) = p]]

\* sorted(s, key=..., reverse=True)
SortedDesc(s, keys) == SortedAsc(s, [j \in 1..Len(keys) |-> 0 - keys[j]])

\* s[:n] for n >= 0
Take(s, n) == SubSeq(s, 1, IF n < Len(s) THEN n ELSE Len(s))

(***************************************************************************)
(* The store: the three containers of a VectorStore object.                *)
(***************************************************************************)
Store == [mv |-> mock_vectors, md |-> mock_documents, col |-> collection]

\* The metadata ChromaDB stores with chunk i of document_id:
\* {"document_id": document_id, "chunk_index": i, **metadata}; in a dict
\* display a later key replaces an earlier one.
ChunkMetadata(document_id, i, metadata) ==
    metadata @@ [document_id |-> document_id, chunk_index |-> i]

\* self.mock_vectors[chunk_id] = embedding                   (i is 0-based)
MockPutVector(st, document_id, i, chunk) ==
    [st EXCEPT !.mv = DictSet(@, ChunkId(document_id, i), MockEmbedding(chunk))]

\* self.mock_documents[chunk_id] = {...}
MockPutDocument(st, document_id, i, chunk, metadata) ==
    [st EXCEPT !.md = DictSet(@, ChunkId(document_id, i),
                              [document_id |-> document_id, content |-> chunk,
                               metadata |-> metadata, chunk_index |-> i])]

ColIds(col) == {col[j].id : j \in 1..Len(col)}

\* self.collection.add(ids=[chunk_id], documents=[chunk], metadatas=[...])
\* on an id the collection does not hold yet.
ChromaAdd(st, document_id, i, chunk, metadata) ==
    [st EXCEPT !.col = Append(@, [id |-> ChunkId(document_id, i), document |-> chunk,
                                  metadata |-> ChunkMetadata(document_id, i, metadata)])]

(***************************************************************************)
(* add_document                                                            *)
(***************************************************************************)
\* One iteration of the loop of add_document, for chunk i (0-based) = chunk.
\* raised: the exception the iteration ends with, "" for none.  fault: the
\* embedding or the storage behind collection.add fails in this iteration.
\* collection.add on an id the collection holds leaves the row as it is;
\* a build that rejects it raises (dupraise), another ignores the add.
AddChunk(st, mock, dupraise, document_id, i, chunk, metadata, fault) ==
    IF mock
    THEN [st |-> MockPutDocument(MockPutVector(st, document_id, i, chunk),
                                 document_id, i, chunk, metadata),
          raised |-> ""]
    ELSE IF fault
    THEN [st |-> st, raised |-> "StorageError"]
    ELSE IF ChunkId(document_id, i) \in ColIds(st.col)
    THEN [st |-> st, raised |-> IF dupraise THEN "DuplicateIDError" ELSE ""]
    ELSE [st |-> ChromaAdd(st, document_id, i, chunk, metadata), raised |-> ""]

\* The loop from iteration i on: for i, chunk in enumerate(chunks).  fail_at
\* is the iteration whose collection.add fails (Len(chunks) for none).
RECURSIVE AddLoop(_, _, _, _, _, _, _, _)
AddLoop(st, mock, dupraise, document_id, chunks, metadata, i, fail_at) ==
    IF i >= Len(chunks)
    THEN [st |-> st, raised |-> ""]
    ELSE LET r == AddChunk(st, mock, dupraise, document_id, i, chunks[i + 1],
                           metadata, i = fail_at)
         IN  IF r.raised # ""
             THEN r
             ELSE AddLoop(r.st, mock, dupraise, document_id, chunks, metadata,
                          i + 1, fail_at)

\* add_document(document_id, chunks, metadata) as one call.
AddDocumentResult(st, mock, dupraise, document_id, chunks, metadata, fail_at) ==
    AddLoop(st, mock, dupraise, document_id, chunks, metadata, 0, fail_at)

(***************************************************************************)
(* delete_document                                                         *)
(***************************************************************************)
\* chunk_ids_to_remove: the keys of mock_documents whose doc_info names the
\* document, in dictionary order.
ChunkIdsToRemove(md, document_id) ==
    LET hits == SelectSeq(md, LAMBDA e : e.value.document_id = document_id)
    IN  [j \in 1..Len(hits) |-> hits[j].key]

\* One iteration of the removal loop of the mock.
MockRemoveChunk(st, chunk_id) ==
    [st EXCEPT !.mv = IF DictHas(@, chunk_id) THEN DictDel(@, chunk_id) ELSE @,
               !.md = IF DictHas(@, chunk_id) THEN DictDel(@, chunk_id) ELSE @]

RECURSIVE MockRemoveAll(_, _)
MockRemoveAll(st, ids) ==
    IF ids = <<>> THEN st ELSE MockRemoveAll(MockRemoveChunk(st, Head(ids)), Tail(ids))

\* self.collection.get(where={"document_id": document_id})["ids"]
ChromaGetIds(col, document_id) ==
    LET rows == SelectSeq(col, LAMBDA row :
                    /\ "document_id" \in DOMAIN row.metadata
                    /\ row.metadata["document_id"] = document_id)
    IN  [j \in 1..Len(rows) |-> rows[j].id]

ChromaIdsOf(col, document_id) ==
    LET ids == ChromaGetIds(col, document_id) IN {ids[j] : j \in 1..Len(ids)}

\* self.collection.delete(ids=ids)
ChromaDelete(st, ids) ==
    [st EXCEPT !.col = SelectSeq(@, LAMBDA row : row.id \notin ids)]

\* What delete_document does to the store.  fault: "get" or "delete" when
\* that call on the collection raises, "none" otherwise.  removed is the
\* number of chunks taken out of the store, caught the exception the try
\* block ends with ("" for none).
DeleteDocumentEffect(st, mock, document_id, fault) ==
    IF mock
    THEN LET ids == ChunkIdsToRemove(st.md, document_id)
         IN  [st |-> MockRemoveAll(st, ids), removed |-> Len(ids), caught |-> ""]
    ELSE LET ids == ChromaIdsOf(st.col, document_id)
         IN  IF fault = "get" \/ (fault = "delete" /\ ids # {})
             THEN [st |-> st, removed |-> 0, caught |-> "StorageError"]
             ELSE IF ids # {}
             THEN [st |-> ChromaDelete(st, ids), removed |-> Cardinality(ids),
                   caught |-> ""]
             ELSE [st |-> st, removed |-> 0, caught |-> ""]

\* A delete_document that reports whether it removed anything.
DeleteReturnsWhetherRemoved(removed, caught) == caught = "" /\ removed > 0

\* The value delete_document returns: True at the end of the try block,
\* False from the except clause.
DeleteReturnValue(removed, caught) == caught = ""

\* delete_document(document_id) as one call.
DeleteDocumentResult(st, mock, document_id, fault) ==
    LET e == DeleteDocumentEffect(st, mock, document_id, fault)
    IN  [st |-> e.st, removed |-> e.removed, caught |-> e.caught,
         ret |-> DeleteReturnValue(e.removed, e.caught)]

(***************************************************************************)
(* search                                                                  *)
(***************************************************************************)
\* The filter loop of the mock: a criterion fails only on a key the chunk's
\* metadata has with another value.
MockMatch(metadata, filter_criteria) ==
    \A key \in DOMAIN filter_criteria :
        ~(key \in DOMAIN metadata /\ metadata[key] # filter_criteria[key])

\* key=lambda x: x["similarity_score"]
SimilarityScores(results) == [j \in 1..Len(results) |-> results[j].similarity_score]

\* The mock branch of search.  A chunk id of mock_vectors that mock_documents
\* lacks is a KeyError (no sequential call leaves the two apart).
MockSearch(st, query, limit, filter_criteria) ==
    LET query_embedding == MockEmbedding(query)
        kept == SelectSeq(st.mv, LAMBDA e :
                    /\ DictHas(st.md, e.key)
                    /\ MockMatch(DictGet(st.md, e.key).metadata, filter_criteria))
        results == [j \in 1..Len(kept) |->
                     LET doc_info == DictGet(st.md, kept[j].key)
                     IN  [document_id |-> doc_info.document_id,
                          content |-> doc_info.content,
                          similarity_score |->
                              CalculateMockSimilarity(query_embedding, kept[j].value),
                          metadata |-> doc_info.metadata]]
    IN  IF \E j \in 1..Len(st.mv) : ~DictHas(st.md, st.mv[j].key)
        THEN [raised |-> "KeyError", results |-> <<>>]
        ELSE [raised |-> "", results |-> Take(SortedDesc(results, SimilarityScores(results)), limit)]

\* The where clause of ChromaDB: a row matches when its metadata has every
\* key of the clause with an equal value.
ChromaWhere(metadata, where_clause) ==
    \A key \in DOMAIN where_clause :
        key \in DOMAIN metadata /\ metadata[key] = where_clause[key]

RowDistances(rows) == [j \in 1..Len(rows) |-> rows[j].distance]

\* self.collection.query(query_texts=[query], n_results=limit, where=...):
\* the matching rows nearest first, at most n_results of them.
ChromaQuery(col, query, n_results, where_clause) ==
    LET hits == SelectSeq(col, LAMBDA row : ChromaWhere(row.metadata, where_clause))
        rows == [j \in 1..Len(hits) |->
                    [id |-> hits[j].id, document |-> hits[j].document,
                     metadata |-> hits[j].metadata,
                     distance |-> ChromaDistance(query, hits[j].document)]]
    IN  Take(SortedAsc(rows, RowDistances(rows)), n_results)

\* A ChromaDB branch of search that fails when the query finds fewer rows
\* than the limit asks for.
ChromaSearchNotEnoughRows(st, query, limit, filter_criteria) ==
    LET rows == ChromaQuery(st.col, query, limit, filter_criteria)
    IN  IF Len(rows) < limit
        THEN [raised |-> "NotEnoughElementsException", results |-> <<>>]
        ELSE [raised |-> "",
              results |-> [j \in 1..Len(rows) |->
                             [document_id |-> rows[j].metadata["document_id"],
                              content |-> rows[j].document,
                              similarity_score |-> rows[j].distance,
                              metadata |-> rows[j].metadata]]]

\* The ChromaDB branch of search: the rows of the query, reformatted.  The
\* result of a query holds the key "distances", so similarity_score is the
\* reported distance.
ChromaSearch(st, query, limit, filter_criteria) ==
    LET rows == ChromaQuery(st.col, query, limit, filter_criteria)
    IN  [raised |-> "",
         results |-> [j \in 1..Len(rows) |->
                        [document_id |-> rows[j].metadata["document_id"],
                         content |-> rows[j].document,
                         similarity_score |-> rows[j].distance,
                         metadata |-> rows[j].metadata]]]

\* search(query, limit, filter_criteria)
SearchResult(st, mock, query, limit, filter_criteria) ==
    IF mock THEN MockSearch(st, query, limit, filter_criteria)
    ELSE ChromaSearch(st, query, limit, filter_criteria)

(***************************************************************************)
(* get_document_count and the chunks of one document                       *)
(***************************************************************************)
\* get_document_count(): it reads self.collection, an attribute only the
\* ChromaDB branch of __init__ sets.
DocumentCountResult(st, mock) ==
    IF mock
    THEN [raised |-> "AttributeError", count |-> 0]
    ELSE [raised |-> "",
          count |-> Cardinality({st.col[j].metadata["document_id"] : j \in 1..Len(st.col)})]

\* key=lambda x: x["chunk_index"]
RowChunkIndexes(rows) == [j \in 1..Len(rows) |-> rows[j].metadata["chunk_index"]]

\* The chunks of a document as get_document_summary reads them:
\* vector_store.collection.get(where={"document_id": document_id}), sorted
\* by chunk_index; no row at all is the HTTPException "Document content not
\* found in vector store".
DocumentChunksResult(st, mock, document_id) ==
    IF mock
    THEN [raised |-> "AttributeError", chunks |-> <<>>]
    ELSE LET rows == SelectSeq(st.col, LAMBDA row :
                        ChromaWhere(row.metadata, [document_id |-> document_id]))
         IN  [raised |-> IF rows = <<>> THEN "HTTPException" ELSE "",
              chunks |-> SortedAsc(rows, RowChunkIndexes(rows))]

(***************************************************************************)
(* The calls, each as one step: the handlers of main.py are coroutines     *)
(* that never await between their first and last access to the store.     *)
(***************************************************************************)
Idle == [op |-> "none", document_id |-> "", chunks |-> <<>>, metadata |-> <<>>,
         i |-> 0, phase |-> "", ids |-> <<>>, fresh |-> FALSE]

\* A returned call: op and document_id name it; n is the number of chunks
\* handed to add_document or removed by delete_document; ret the value
\* delete_document returned; raised the exception that reached the caller;
\* caught the exception delete_document caught; again holds for a
\* delete_document that directly follows a delete_document of the same id
\* that returned True.
Returned(op, document_id, n, ret, raised, caught, again) ==
    [op |-> op, document_id |-> document_id, n |-> n, ret |-> ret, raised |-> raised,
     caught |-> caught, again |-> again]

NoCall == Returned("none", "", 0, TRUE, "", "", FALSE)

DeletedJustBefore(document_id) ==
    last.op = "delete" /\ last.document_id = document_id /\ last.ret

\* No request answered yet.  handler names the handler, status_code and
\* detail are those of the response (200 and "" for a normal return),
\* document_id is the id the response body carries ("" for none), body the
\* list a search returns; request is the request answered, and raised_in
\* records the call of the handler that raised ("" for none).
NoResponse == [handler |-> "none", status_code |-> 200, detail |-> "", document_id |-> "",
               body |-> <<>>, request |-> <<>>, raised_in |-> ""]

\* DocumentProcessor(): chunk_size and chunk_overlap as main.py constructs it.
DefaultChunkSize == 1000
DefaultChunkOverlap == 200

\* VectorStore(use_mock=...): main.py passes USE_MOCK_SERVICES, which is
\* True; False is the value it is to be set to for the real services.
Init ==
    /\ \/ use_mock = TRUE /\ dup_raises = FALSE
       \/ use_mock = FALSE /\ dup_raises \in BOOLEAN
    /\ mock_vectors = <<>>
    /\ mock_documents = <<>>
    /\ collection = <<>>
    /\ running = Idle
    /\ deleted = {}
    /\ writes = 0
    /\ last = NoCall
    /\ document_store = <<>>
    /\ issued = {}
    /\ response = NoResponse
    /\ mock_document_tags = <<>>
    /\ doc_text = <<>>
    /\ chunk_size = DefaultChunkSize
    /\ chunk_overlap = DefaultChunkOverlap
    /\ doc_chunks = <<>>

SetStore(st) ==
    /\ mock_vectors' = st.mv
    /\ mock_documents' = st.md
    /\ collection' = st.col

AddDocument(document_id, chunks, metadata, fail_at) ==
    LET r == AddDocumentResult(Store, use_mock, dup_raises, document_id, chunks,
                               metadata, fail_at)
    IN  /\ running = Idle
        /\ writes < MaxWrites
        /\ fail_at <= Len(chunks)
        /\ use_mock => fail_at = Len(chunks)
        /\ SetStore(r.st)
        /\ writes' = writes + 1
        /\ deleted' = deleted \ {document_id}
        /\ last' = Returned("add", document_id, Len(chunks), TRUE, r.raised, "", FALSE)
        /\ UNCHANGED <<handler_vars, splitter_vars, use_mock, dup_raises, running>>

DeleteDocument(document_id, fault) ==
    LET r == DeleteDocumentResult(Store, use_mock, document_id, fault)
    IN  /\ running = Idle
        /\ writes < MaxWrites
        /\ use_mock => fault = "none"
        /\ SetStore(r.st)
        /\ writes' = writes + 1
        /\ deleted' = IF r.ret THEN deleted \cup {document_id} ELSE deleted
        /\ last' = Returned("delete", document_id, r.removed, r.ret, "", r.caught,
                             DeletedJustBefore(document_id))
        /\ UNCHANGED <<handler_vars, splitter_vars, use_mock, dup_raises, running>>

Search(query, limit, filter_criteria) ==
    LET r == SearchResult(Store, use_mock, query, limit, filter_criteria)
    IN  /\ last' = Returned("search", "", 0, TRUE, r.raised, "", FALSE)
        /\ UNCHANGED <<handler_vars, splitter_vars, use_mock, dup_raises, mock_vectors, mock_documents,
                       collection, running, deleted, writes>>

GetDocumentCount ==
    LET r == DocumentCountResult(Store, use_mock)
    IN  /\ last' = Returned("count", "", 0, TRUE, r.raised, "", FALSE)
        /\ UNCHANGED <<handler_vars, splitter_vars, use_mock, dup_raises, mock_vectors, mock_documents,
                       collection, running, deleted, writes>>

GetDocumentChunks(document_id) ==
    LET r == DocumentChunksResult(Store, use_mock, document_id)
    IN  /\ last' = Returned("chunks", document_id, 0, TRUE, r.raised, "", FALSE)
        /\ UNCHANGED <<handler_vars, splitter_vars, use_mock, dup_raises, mock_vectors, mock_documents,
                       collection, running, deleted, writes>>

Next ==
    \/ \E d \in DocumentIds, cs \in ChunkLists, m \in Metadatas, f \in 0..MaxChunks :
          AddDocument(d, cs, m, f)
    \/ \E d \in DocumentIds, fault \in {"none", "get", "delete"} : DeleteDocument(d, fault)
    \/ \E q \in Queries, k \in Limits, f \in Filters : Search(q, k, f)
    \/ GetDocumentCount
    \/ \E d \in DocumentIds : GetDocumentChunks(d)

Spec == Init /\ [][Next]_vars

(***************************************************************************)
(* The calls under request-parallel scheduling.  VectorStore takes no      *)
(* lock: a call of add_document or delete_document is a sequence of        *)
(* separate writes to the store (one dictionary assignment or deletion,    *)
(* one collection.add, one collection.delete), and a reader scheduled      *)
(* between two of them reads what has been written so far.  One writer     *)
(* is in flight at a time; readers run at any moment.                      *)
(***************************************************************************)
\* The chunk ids of a document the store holds.
StoredIds(st, mock, document_id) ==
    IF mock
    THEN {ChunkId(document_id, i) : i \in 0..MaxChunks} \cap (DictKeys(st.mv) \cup DictKeys(st.md))
    ELSE {ChunkId(document_id, i) : i \in 0..MaxChunks} \cap ColIds(st.col)

\* add_document is entered: nothing is written yet.
BeginAdd(document_id, chunks, metadata) ==
    /\ running = Idle
    /\ writes < MaxWrites
    /\ writes' = writes + 1
    /\ deleted' = deleted \ {document_id}
    /\ running' = [op |-> "add", document_id |-> document_id, chunks |-> chunks,
                   metadata |-> metadata, i |-> 0,
                   phase |-> IF use_mock THEN "vector" ELSE "row", ids |-> <<>>,
                   fresh |-> StoredIds(Store, use_mock, document_id) = {}]
    /\ UNCHANGED <<handler_vars, splitter_vars, use_mock, dup_raises, mock_vectors, mock_documents, collection, last>>

\* The next write of the add in flight, or its return when the loop is over
\* or collection.add raised.
AddStep ==
    /\ running.op = "add"
    /\ LET d == running.document_id
           i == running.i
           n == Len(running.chunks)
           returned(raised) ==
               /\ running' = Idle
               /\ last' = Returned("add", d, n, TRUE, raised, "", FALSE)
       IN  IF i >= n
           THEN returned("") /\ UNCHANGED <<mock_vectors, mock_documents, collection>>
           ELSE IF running.phase = "vector"
           THEN /\ SetStore(MockPutVector(Store, d, i, running.chunks[i + 1]))
                /\ running' = [running EXCEPT !.phase = "document"]
                /\ UNCHANGED last
           ELSE IF running.phase = "document"
           THEN /\ SetStore(MockPutDocument(Store, d, i, running.chunks[i + 1],
                                            running.metadata))
                /\ running' = [running EXCEPT !.phase = "vector", !.i = i + 1]
                /\ UNCHANGED last
           ELSE LET r == AddChunk(Store, FALSE, dup_raises, d, i, running.chunks[i + 1],
                                  running.metadata, FALSE)
                IN  /\ SetStore(r.st)
                    /\ IF r.raised # ""
                       THEN returned(r.raised)
                       ELSE running' = [running EXCEPT !.i = i + 1] /\ UNCHANGED last
    /\ UNCHANGED <<handler_vars, splitter_vars, use_mock, dup_raises, deleted, writes>>

\* delete_document is entered and has read which chunks to remove.
BeginDelete(document_id) ==
    /\ running = Idle
    /\ writes < MaxWrites
    /\ writes' = writes + 1
    /\ running' = [op |-> "delete", document_id |-> document_id, chunks |-> <<>>,
                   metadata |-> <<>>, i |-> 0,
                   phase |-> IF use_mock THEN "vector" ELSE "row",
                   ids |-> IF use_mock THEN ChunkIdsToRemove(mock_documents, document_id)
                           ELSE ChromaGetIds(collection, document_id),
                   fresh |-> FALSE]
    /\ UNCHANGED <<handler_vars, splitter_vars, use_mock, dup_raises, mock_vectors, mock_documents, collection,
                   deleted, last>>

\* The next removal of the delete in flight, or its return.  i counts the
\* chunks removed so far.
DeleteStep ==
    /\ running.op = "delete"
    /\ LET d == running.document_id
           ids == running.ids
       IN  IF ids = <<>>
           THEN /\ running' = Idle
                /\ deleted' = deleted \cup {d}
                /\ last' = Returned("delete", d, running.i,
                                     DeleteReturnValue(running.i, ""), "", "",
                                     DeletedJustBefore(d))
                /\ UNCHANGED <<mock_vectors, mock_documents, collection>>
           ELSE IF running.phase = "vector"
           THEN /\ mock_vectors' = IF DictHas(mock_vectors, Head(ids))
                                   THEN DictDel(mock_vectors, Head(ids))
                                   ELSE mock_vectors
                /\ running' = [running EXCEPT !.phase = "document"]
                /\ UNCHANGED <<mock_documents, collection, deleted, last>>
           ELSE IF running.phase = "document"
           THEN /\ mock_documents' = IF DictHas(mock_documents, Head(ids))
                                     THEN DictDel(mock_documents, Head(ids))
                                     ELSE mock_documents
                /\ running' = [running EXCEPT !.phase = "vector", !.ids = Tail(ids),
                                              !.i = running.i + 1]
                /\ UNCHANGED <<mock_vectors, collection, deleted, last>>
           ELSE /\ SetStore(ChromaDelete(Store, {ids[j] : j \in 1..Len(ids)}))
                /\ running' = [running EXCEPT !.ids = <<>>, !.i = Len(ids)]
                /\ UNCHANGED <<deleted, last>>
    /\ UNCHANGED <<handler_vars, splitter_vars, use_mock, dup_raises, writes>>

NextThreads ==
    \/ \E d \in DocumentIds, cs \in ChunkLists, m \in Metadatas : BeginAdd(d, cs, m)
    \/ AddStep
    \/ \E d \in DocumentIds : BeginDelete(d)
    \/ DeleteStep
    \/ \E q \in Queries, k \in Limits, f \in Filters : Search(q, k, f)
    \/ GetDocumentCount
    \/ \E d \in DocumentIds : GetDocumentChunks(d)

SpecThreads == Init /\ [][NextThreads]_vars

(***************************************************************************)
(* Properties.                                                             *)
(***************************************************************************)
\* What an unfiltered search that asks for every chunk returns.
AllResults(query) ==
    SearchResult(Store, use_mock, query, Len(mock_vectors) + Len(collection) + 1,
                 NoFilter).results

\* The number of results of a search that name the document.
ResultsNaming(results, document_id) ==
    Cardinality({j \in 1..Len(results) : results[j].document_id = document_id})

\* C1: while add_document or delete_document is running, a reader sees all
\* of the document's chunks or none of them.  For an add of a document the
\* store did not hold, a search scheduled at any moment of the call returns
\* none or all of the chunks handed in; for a delete it returns none or all
\* of the chunks the call set out to remove.
C1_ReaderSeesAllOrNone ==
    \A q \in Queries :
        LET seen == ResultsNaming(AllResults(q), running.document_id)
        IN  /\ (running.op = "add" /\ running.fresh)
                => seen \in {0, Len(running.chunks)}
            /\ running.op = "delete"
                => seen \in {0, running.i + Len(running.ids)}

\* C2: after delete_document(D) has returned True and until add_document(D)
\* is called again, no search returns a result whose document_id is D.
C2_NoResultAfterDelete ==
    \A d \in deleted, q \in Queries, k \in Limits, f \in Filters :
        ResultsNaming(SearchResult(Store, use_mock, q, k, f).results, d) = 0

\* C3 as claimed: delete_document returns True exactly when it removed at
\* least one chunk, and raises nothing.
C3_ReturnsWhetherRemoved ==
    last.op = "delete" => (last.raised = "" /\ (last.ret <=> last.n > 0))

\* C3 amended: delete_document raises nothing and returns True exactly when
\* its try block ended without an exception, whether or not it removed a
\* chunk; so it returns True for an id the store holds no chunk of, and for
\* a second delete directly after a first.
C3_ReturnsTrueUnlessStoreRaised ==
    last.op = "delete" =>
        /\ last.raised = ""
        /\ last.ret <=> (last.caught = "")
        /\ (last.again /\ last.caught = "") => (last.ret /\ last.n = 0)

\* A second delete_document of the same id directly after a first one: it
\* removes nothing and returns True.
C3_Witness ==
    /\ last.op = "delete"
    /\ last.again
    /\ last.n = 0
    /\ last.ret

\* The chunk stored under the id of chunk i of the document.
ChunkAt(st, mock, document_id, i) ==
    LET id == ChunkId(document_id, i)
    IN  IF mock
        THEN IF DictHas(st.md, id)
             THEN [present |-> TRUE, content |-> DictGet(st.md, id).content,
                   metadata |-> DictGet(st.md, id).metadata]
             ELSE [present |-> FALSE, content |-> "", metadata |-> <<>>]
        ELSE IF id \in ColIds(st.col)
             THEN LET row == st.col[CHOOSE j \in 1..Len(st.col) : st.col[j].id = id]
                  IN  [present |-> TRUE, content |-> row.document, metadata |-> row.metadata]
             ELSE [present |-> FALSE, content |-> "", metadata |-> <<>>]

\* A step is a call add_document(d, cs, m) that no storage fault interrupts.
IsAdd(d, cs, m) == \E f \in 0..MaxChunks : f = Len(cs) /\ AddDocument(d, cs, m, f)

Count == DocumentCountResult(Store, use_mock)

\* C4: add_document of a document the index does not hold, with one chunk or
\* more, raises get_document_count() by exactly 1.
C4_CountRisesByOne ==
    [][\A d \in DocumentIds, cs \in ChunkLists, m \in Metadatas :
          (IsAdd(d, cs, m) /\ Len(cs) >= 1 /\ StoredIds(Store, use_mock, d) = {})
          => /\ Count.raised = ""
             /\ Count'.raised = ""
             /\ Count'.count = Count.count + 1]_vars

\* C5: after add_document(D, chunks, metadata) the chunks read back for D are
\* exactly the chunks handed in, in order, with chunk_index 0..N-1, and each
\* carries document_id = D and the caller's fields.  (Stated for one chunk
\* or more and for caller metadata that has no key named document_id or
\* chunk_index.)
C5_ChunksReadBackInOrder ==
    [][\A d \in DocumentIds, cs \in ChunkLists, m \in Metadatas :
          (/\ IsAdd(d, cs, m)
           /\ Len(cs) >= 1
           /\ DOMAIN m \cap {"document_id", "chunk_index"} = {})
          => LET r == DocumentChunksResult(Store, use_mock, d)'
             IN  /\ r.raised = ""
                 /\ Len(r.chunks) = Len(cs)
                 /\ \A j \in 1..Len(r.chunks) :
                       /\ r.chunks[j].metadata["chunk_index"] = j - 1
                       /\ r.chunks[j].document = cs[j]
                       /\ r.chunks[j].metadata["document_id"] = d
                       /\ \A key \in DOMAIN m :
                             /\ key \in DOMAIN r.chunks[j].metadata
                             /\ r.chunks[j].metadata[key] = m[key]]_vars

\* C6: the metadata of every stored chunk has document_id and chunk_index
\* equal to the document_id handed to add_document and to the chunk's
\* position, whatever keys the caller's metadata has.  (The mock keeps the
\* two beside the caller's mapping, in doc_info; they are read from there.)
C6_CallerFieldsNeverOverride ==
    /\ \A j \in 1..Len(mock_documents) :
          \E d \in DocumentIds, i \in 0..MaxChunks :
              /\ mock_documents[j].key = ChunkId(d, i)
              /\ mock_documents[j].value.document_id = d
              /\ mock_documents[j].value.chunk_index = i
    /\ \A j \in 1..Len(collection) :
          \E d \in DocumentIds, i \in 0..MaxChunks :
              /\ collection[j].id = ChunkId(d, i)
              /\ collection[j].metadata["document_id"] = d
              /\ collection[j].metadata["chunk_index"] = i

\* The distance between the query and a chunk text that the store ranks by:
\* cosine distance of the mock embeddings, the distance ChromaDB reports.
UnderlyingDistance(query, content) ==
    IF use_mock
    THEN 100 - CalculateMockSimilarity(MockEmbedding(query), MockEmbedding(content))
    ELSE ChromaDistance(query, content)

\* C7: search(q, limit=k) returns at most k results, and the scores of
\* consecutive results do not increase.
C7_AtMostLimitAndNonIncreasing ==
    \A q \in Queries, k \in Limits, f \in Filters :
        LET results == SearchResult(Store, use_mock, q, k, f).results
        IN  /\ Len(results) <= k
            /\ \A j \in 1..(Len(results) - 1) :
                  results[j].similarity_score >= results[j + 1].similarity_score

\* The metadata of a result, with the document_id the result carries beside
\* it counted in (the mock keeps it outside the mapping).
ResultMetadata(result) == result.metadata @@ [document_id |-> result.document_id]

\* C8: every result of a filtered search has, for every key of the filter,
\* that key in its metadata with an equal value.
C8_FilterIsExactMatch ==
    \A q \in Queries, k \in Limits, f \in Filters :
        LET results == SearchResult(Store, use_mock, q, k, f).results
        IN  \A j \in 1..Len(results), key \in DOMAIN f :
                /\ key \in DOMAIN ResultMetadata(results[j])
                /\ ResultMetadata(results[j])[key] = f[key]

\* The chunks stored under the ids of the document, by chunk index.
ChunksOf(st, mock, document_id) ==
    [i \in 0..MaxChunks |-> ChunkAt(st, mock, document_id, i)]

\* C9: add_document(D, chunks2) on a document the store holds either leaves
\* the chunks of D as they were, or leaves exactly chunks2 under the indices
\* 0..len(chunks2)-1 and nothing of the earlier add.
C9_ReAddRejectsOrReplaces ==
    [][\A d \in DocumentIds, cs \in ChunkLists, m \in Metadatas :
          (IsAdd(d, cs, m) /\ StoredIds(Store, use_mock, d) # {})
          => \/ ChunksOf(Store, use_mock, d)' = ChunksOf(Store, use_mock, d)
             \/ \A i \in 0..MaxChunks :
                   LET c == ChunkAt(Store, use_mock, d, i)'
                   IN  IF i < Len(cs)
                       THEN c.present /\ c.content = cs[i + 1]
                       ELSE ~c.present]_vars

\* C10: of two results of one search, the one with the higher score is the
\* one nearer to the query; and the score is 1 - distance where the store
\* reports a distance.
C10_HigherScoreIsNearer ==
    \A q \in Queries, k \in Limits, f \in Filters :
        LET results == SearchResult(Store, use_mock, q, k, f).results
        IN  /\ \A a, b \in 1..Len(results) :
                  results[a].similarity_score > results[b].similarity_score
                  => UnderlyingDistance(q, results[a].content)
                       < UnderlyingDistance(q, results[b].content)
            /\ ~use_mock =>
                  \A a \in 1..Len(results) :
                      results[a].similarity_score
                        = 100 - UnderlyingDistance(q, results[a].content)

\* The documents the store holds at least one chunk of.
DocumentsWithChunks == {d \in DocumentIds : StoredIds(Store, use_mock, d) # {}}

\* C11: after any sequence of add_document and delete_document calls,
\* get_document_count() returns (and does not raise) the number of distinct
\* documents that have at least one chunk stored, with the mock store as
\* with ChromaDB.
C11_CountIsDistinctDocuments ==
    writes >= 1 =>
        /\ Count.raised = ""
        /\ Count.count = Cardinality(DocumentsWithChunks)

\* C19: an add_document in which the embedding or the storage of a chunk
\* fails raises to its caller and leaves the store as it was before the call.
C19_FailedAddLeavesIndexUnchanged ==
    [][\A d \in DocumentIds, cs \in ChunkLists, m \in Metadatas, f \in 0..MaxChunks :
          AddDocument(d, cs, m, f)
          => /\ f < Len(cs) => last'.raised # ""
             /\ last'.raised # "" => Store' = Store]_vars

(***************************************************************************)
(* Chunk identifiers of documents whose ids hold underscores and digits.   *)
(* add_document is called for documents the store does not hold (as        *)
(* upload_document calls it, with a new id each time), with chunk lists    *)
(* long enough for two-digit indices.                                      *)
(***************************************************************************)
MaxIndex == 10
MaxDocuments == 2

UnderscoreIds == {"d", "d1", "d_1", "d_1_0"}

\* The lengths of the chunk lists: short ones, and ones that reach the
\* two-digit indices.
ChunkCounts == {1, 2, MaxIndex, MaxIndex + 1}

\* The document ids the stored chunks carry.
HeldDocumentIds(st, mock) ==
    IF mock
    THEN {st.md[j].value.document_id : j \in 1..Len(st.md)}
    ELSE {st.col[j].metadata["document_id"] : j \in 1..Len(st.col)}

\* The number of chunks the store holds.
StoredChunks(st, mock) == IF mock THEN Len(st.md) ELSE Len(st.col)

\* add_document(document_id, n chunks, {"file_type": "txt"}) for a document
\* the store holds no chunk of.
AddNewDocument(document_id, n) ==
    LET r == AddDocumentResult(Store, use_mock, dup_raises, document_id,
                               [j \in 1..n |-> "A."], TxtMetadata, n)
    IN  /\ running = Idle
        /\ writes < MaxDocuments
        /\ document_id \notin HeldDocumentIds(Store, use_mock)
        /\ SetStore(r.st)
        /\ writes' = writes + 1
        /\ last' = Returned("add", document_id, n, TRUE, r.raised, "", FALSE)
        /\ UNCHANGED <<handler_vars, splitter_vars, use_mock, dup_raises, running, deleted>>

NextChunkIds ==
    \E d \in UnderscoreIds, n \in ChunkCounts : AddNewDocument(d, n)

SpecChunkIds == Init /\ [][NextChunkIds]_vars

\* C12: the identifier built from (document_id, chunk_index) is unique in
\* the store, also for document ids that hold underscores and digits: every
\* stored chunk sits under the identifier of its own document_id and
\* chunk_index, and the chunks of a document added to the store never fall
\* on the identifier of a chunk of another document, so each of them is
\* stored beside the chunks already there.
C12_ChunkIdIsUnique ==
    [][\A d \in UnderscoreIds, n \in ChunkCounts :
          AddNewDocument(d, n)
          => /\ last'.raised = ""
             /\ StoredChunks(Store, use_mock)' = StoredChunks(Store, use_mock) + n
             /\ \A j \in 1..Len(mock_documents') :
                   mock_documents'[j].key
                     = ChunkId(mock_documents'[j].value.document_id,
                               mock_documents'[j].value.chunk_index)
             /\ \A j \in 1..Len(collection') :
                   collection'[j].id
                     = ChunkId(collection'[j].metadata["document_id"],
                               collection'[j].metadata["chunk_index"])]_vars

\* The store holds chunk 1 of document "d" under "d_1", the id of another
\* document, beside the chunks of that document "d_1".
C12_Witness ==
    /\ {"d", "d_1"} \subseteq HeldDocumentIds(Store, use_mock)
    /\ \/ {"d_1", "d_1_0", "d_1_1"} \subseteq DictKeys(mock_documents)
       \/ {"d_1", "d_1_0", "d_1_1"} \subseteq ColIds(collection)

(***************************************************************************)
(* The handlers of main.py, each as one step, and the restart of the       *)
(* process.  document_store and vector_store are both constructed with     *)
(* USE_MOCK_SERVICES.  Every handler wraps its body in                     *)
(* try: ... except Exception as e: raise HTTPException(500, str(e)),       *)
(* and HTTPException is an Exception: an HTTPException raised in the body  *)
(* is answered with status 500 as well.                                    *)
(***************************************************************************)
\* The number of requests that write to a store (uploads, deletes) and of
\* restarts in a run.
MaxRequests == 2

Extensions == {".txt", ".exe"}

\* document_store.get_document(document_id) is not None
HasDocument(docs, document_id) == \E j \in 1..Len(docs) : docs[j].id = document_id

\* The mock of DocumentStore.delete_document: pop the record of the id.
RemoveDocument(docs, document_id) == SelectSeq(docs, LAMBDA doc : doc.id # document_id)

\* except Exception as e: raise HTTPException(status_code=500, detail=str(e))
Failure(handler, request, e, raised_in) ==
    [handler |-> handler, status_code |-> 500, detail |-> e, document_id |-> "",
     body |-> <<>>, request |-> request, raised_in |-> raised_in]

\* The return of a handler.
Success(handler, request, document_id, body) ==
    [handler |-> handler, status_code |-> 200, detail |-> "", document_id |-> document_id,
     body |-> body, request |-> request, raised_in |-> ""]

\* POST /upload.  chunks is processed_data['chunks']; fault names the call
\* that raises: "extraction" for process_file, "store" for store_document
\* (Firebase only); fail_at is the chunk whose collection.add raises
\* (Len(chunks) for none).  store_document generates the id.  There are
\* chunks, and an add to the index, only when the calls before returned.
UploadDocument(extension, chunks, fault, fail_at) ==
    LET request == [extension |-> extension]
        answer(resp) == response' = resp
    IN  /\ writes < MaxRequests
        /\ writes' = writes + 1
        /\ fail_at <= Len(chunks)
        /\ use_mock => (fault # "store" /\ fail_at = Len(chunks))
        /\ (extension \notin {".pdf", ".docx", ".txt"} \/ fault # "none") => chunks = <<>>
        /\ extension \notin {".pdf", ".docx", ".txt"} => fault = "none"
        /\ IF extension \notin {".pdf", ".docx", ".txt"}
           THEN /\ answer(Failure("upload", request, "400: Unsupported file type", "file_type"))
                /\ UNCHANGED <<mock_vectors, mock_documents, collection, document_store, issued>>
           ELSE IF fault = "extraction"
           THEN /\ answer(Failure("upload", request, "Error processing TXT file", "extraction"))
                /\ UNCHANGED <<mock_vectors, mock_documents, collection, document_store, issued>>
           ELSE IF fault = "store"
           THEN /\ answer(Failure("upload", request, "StorageError", "store"))
                /\ UNCHANGED <<mock_vectors, mock_documents, collection, document_store, issued>>
           ELSE \E document_id \in DocumentIds \ issued :
                  LET r == AddDocumentResult(Store, use_mock, dup_raises, document_id,
                                             chunks, TxtMetadata, fail_at)
                  IN  /\ issued' = issued \cup {document_id}
                      /\ document_store' = Append(document_store,
                                                  [id |-> document_id, fileType |-> "txt"])
                      /\ SetStore(r.st)
                      /\ IF r.raised # ""
                         THEN answer(Failure("upload", request, r.raised, "index"))
                         ELSE answer(Success("upload", request, document_id, <<>>))
        /\ UNCHANGED <<use_mock, dup_raises, running, deleted, last, mock_document_tags,
                       splitter_vars>>

\* The number of characters of the chunk a snippet shows.
SnippetLength == 200

\* A snippet that shows the whole chunk.
SnippetOfWholeChunk(content) == content \o "..."

\* result['content'][:200] + "..."
Snippet(content) == Take(content, SnippetLength) \o "..."

\* POST /search: the results of vector_store.search(query, limit) whose
\* document the metadata store knows.
SearchDocuments(query, limit) ==
    LET request == [query |-> query, limit |-> limit]
        r == SearchResult(Store, use_mock, query, limit, NoFilter)
        known == SelectSeq(r.results, LAMBDA result :
                     HasDocument(document_store, result.document_id))
        formatted_results ==
            [j \in 1..Len(known) |->
                [document_id |-> known[j].document_id, snippet |-> Snippet(known[j].content),
                 similarity_score |-> known[j].similarity_score]]
    IN  /\ response' = IF r.raised # ""
                       THEN Failure("search", request, r.raised, "search")
                       ELSE Success("search", request, "", formatted_results)
        /\ UNCHANGED <<use_mock, dup_raises, mock_vectors, mock_documents, collection,
                       running, deleted, writes, last, document_store, issued,
                       mock_document_tags, splitter_vars>>

\* GET /documents/{document_id}/summary.  DocumentSummarizer has no method
\* summarize_chunks: the call after the chunks are read raises AttributeError.
GetDocumentSummary(document_id) ==
    LET request == [document_id |-> document_id]
        r == DocumentChunksResult(Store, use_mock, document_id)
    IN  /\ response' =
              IF ~HasDocument(document_store, document_id)
              THEN Failure("summary", request, "404: Document not found", "get_document")
              ELSE IF r.raised = "AttributeError"
              THEN Failure("summary", request, "AttributeError", "collection")
              ELSE IF r.raised = "HTTPException"
              THEN Failure("summary", request,
                           "404: Document content not found in vector store", "collection")
              ELSE Failure("summary", request, "AttributeError", "summarize_chunks")
        /\ UNCHANGED <<use_mock, dup_raises, mock_vectors, mock_documents, collection,
                       running, deleted, writes, last, document_store, issued,
                       mock_document_tags, splitter_vars>>

\* DELETE /documents/{document_id}.  fault is that of
\* vector_store.delete_document, whose return value the handler drops;
\* store_fails: document_store.delete_document returns False (Firebase only);
\* neither is called for an id the metadata store does not hold.
DeleteDocumentHandler(document_id, fault, store_fails) ==
    LET request == [document_id |-> document_id]
        r == DeleteDocumentResult(Store, use_mock, document_id, fault)
    IN  /\ writes < MaxRequests
        /\ writes' = writes + 1
        /\ (use_mock \/ ~HasDocument(document_store, document_id))
              => (fault = "none" /\ ~store_fails)
        /\ IF ~HasDocument(document_store, document_id)
           THEN /\ response' = Failure("delete", request, "404: Document not found",
                                       "get_document")
                /\ UNCHANGED <<mock_vectors, mock_documents, collection, document_store>>
           ELSE /\ SetStore(r.st)
                /\ IF store_fails
                   THEN /\ response' = Failure("delete", request,
                                               "500: Failed to delete document",
                                               "document_store")
                        /\ UNCHANGED document_store
                   ELSE /\ response' = Success("delete", request, "", <<>>)
                        /\ document_store' = RemoveDocument(document_store, document_id)
        /\ UNCHANGED <<use_mock, dup_raises, running, deleted, last, issued,
                       mock_document_tags, splitter_vars>>

\* The process is started again: main.py constructs VectorStore and
\* DocumentStore anew.  The mocks start empty; the ChromaDB collection at
\* CHROMA_PERSIST_DIRECTORY and the Firebase records are opened as they were.
\* mock_document_tags is a list of the module and starts empty.
Restart ==
    /\ writes < MaxRequests
    /\ writes' = writes + 1
    /\ mock_vectors' = <<>>
    /\ mock_documents' = <<>>
    /\ collection' = IF use_mock THEN <<>> ELSE collection
    /\ document_store' = IF use_mock THEN <<>> ELSE document_store
    /\ mock_document_tags' = <<>>
    /\ response' = [NoResponse EXCEPT !.handler = "restart"]
    /\ UNCHANGED <<use_mock, dup_raises, running, deleted, last, issued, splitter_vars>>

NextHandlers ==
    \/ \E e \in Extensions, cs \in ChunkLists, fault \in {"none", "extraction", "store"},
          f \in 0..MaxChunks : UploadDocument(e, cs, fault, f)
    \/ \E q \in Queries, k \in Limits : SearchDocuments(q, k)
    \/ \E d \in DocumentIds : GetDocumentSummary(d)
    \/ \E d \in DocumentIds, fault \in {"none", "get", "delete"}, sf \in BOOLEAN :
          DeleteDocumentHandler(d, fault, sf)
    \/ Restart

SpecHandlers == Init /\ [][NextHandlers]_vars

\* C13: a restart of the process, as main.py configures the stores, loses
\* no chunk: every chunk stored before it is stored after it, and every
\* search returns what it returned before.
C13_RestartKeepsChunks ==
    [][Restart =>
          /\ \A d \in DocumentIds :
                ChunksOf(Store, use_mock, d)' = ChunksOf(Store, use_mock, d)
          /\ \A q \in Queries : AllResults(q)' = AllResults(q)]_vars

\* The number of stored chunks that the filter step of search lets through.
MatchingChunks(st, mock, filter_criteria) ==
    IF mock
    THEN Cardinality({j \in 1..Len(st.md) :
                         MockMatch(st.md[j].value.metadata, filter_criteria)})
    ELSE Cardinality({j \in 1..Len(st.col) :
                         ChromaWhere(st.col[j].metadata, filter_criteria)})

\* C14: a search that has no hit (the index is empty, or no stored chunk
\* passes the filter) returns the empty list and raises nothing, and POST
\* /search on an index without a chunk answers 200 with the empty list.
C14_ZeroHitsIsEmptyNotError ==
    /\ \A q \in Queries, k \in Limits, f \in Filters :
          MatchingChunks(Store, use_mock, f) = 0
          => SearchResult(Store, use_mock, q, k, f) = [raised |-> "", results |-> <<>>]
    /\ (response.handler = "search" /\ StoredChunks(Store, use_mock) = 0)
          => (response.status_code = 200 /\ response.body = <<>>)

\* POST /search has answered on an index that holds no chunk while the
\* metadata store holds a document.
C14_Witness ==
    /\ response.handler = "search"
    /\ response.status_code = 200
    /\ response.body = <<>>
    /\ StoredChunks(Store, use_mock) = 0
    /\ document_store # <<>>

\* C15: the summary of a document that the metadata store holds and the
\* index holds no chunk of is answered with an empty result or NotFound
\* (404), not with the status of an internal error.
C15_NoChunksIsNotFound ==
    (/\ response.handler = "summary"
     /\ HasDocument(document_store, response.request.document_id)
     /\ StoredIds(Store, use_mock, response.request.document_id) = {})
    => response.status_code \in {200, 404}

\* The stage an error response of POST /upload names: the detail of an
\* extraction failure starts with "Error processing"; no other field or
\* text of the response names a stage.
StageNamed(resp) ==
    IF resp.detail = "Error processing TXT file" THEN "extraction" ELSE ""

\* C20: the error response of a failed upload names the stage that failed,
\* and a failure of the index add after the metadata record was stored
\* carries the document_id and differs in status from the response to an
\* extraction failure.
C20_FailureNamesStage ==
    (response.handler = "upload" /\ response.raised_in \in {"extraction", "index"})
    => /\ StageNamed(response) = response.raised_in
       /\ response.raised_in = "index"
            => /\ response.document_id \in issued
               /\ response.status_code
                    # Failure("upload", response.request, "Error processing TXT file",
                              "extraction").status_code

(***************************************************************************)
(* DocumentProcessor._split_text: the RecursiveCharacterTextSplitter that  *)
(* __init__ constructs with chunk_size, chunk_overlap and length_function  *)
(* len, and so with the separators "\n\n", "\n", " ", "", with the         *)
(* separator kept at the start of the piece that follows it, and with      *)
(* every chunk stripped of leading and trailing whitespace.  A text is a   *)
(* sequence of characters; a piece of it is the range [start, end) of      *)
(* 0-based positions, as in text[start:end].                               *)
(***************************************************************************)
MaxTextLen == 6
MaxChunkSize == 4

Alphabet == {"a", ".", " ", "\n"}

RECURSIVE TextsOfLen(_)
TextsOfLen(n) ==
    IF n = 0 THEN {<<>>}
    ELSE {Append(t, c) : t \in TextsOfLen(n - 1), c \in Alphabet}

Texts == UNION {TextsOfLen(n) : n \in 0..MaxTextLen}

\* "The cat sat. The dog ran. The bird flew."
ScenarioText ==
    <<"T", "h", "e", " ", "c", "a", "t", " ", "s", "a", "t", ".", " ",
      "T", "h", "e", " ", "d", "o", "g", " ", "r", "a", "n", ".", " ", "T",
      "h", "e", " ", "b", "i", "r", "d", " ", "f", "l", "e", "w", ".">>

Separators == << <<"\n", "\n">>, <<"\n">>, <<" ">>, <<>> >>

\* The characters str.strip() removes.
IsSpace(c) == c \in {" ", "\n", "\t", "\r"}

\* text[s:e]
Slice(t, s, e) == SubSeq(t, s + 1, e)

PieceLen(piece) == piece.end - piece.start

\* The separator stands at position p of text[:e].
MatchesAt(t, p, e, separator) ==
    /\ p + Len(separator) <= e
    /\ \A k \in 1..Len(separator) : t[p + k] = separator[k]

\* Where re.split finds the separator in text[from:e]: leftmost first, the
\* search going on behind each match.
RECURSIVE MatchStarts(_, _, _, _)
MatchStarts(t, from, e, separator) ==
    IF \E p \in from..(e - 1) : MatchesAt(t, p, e, separator)
    THEN LET p == CHOOSE q \in from..(e - 1) :
                      /\ MatchesAt(t, q, e, separator)
                      /\ \A x \in from..(q - 1) : ~MatchesAt(t, x, e, separator)
         IN  <<p>> \o MatchStarts(t, p + Len(separator), e, separator)
    ELSE <<>>

\* _split_text_with_regex(text[s:e], separator, keep_separator=True): the
\* text before the first separator, then each separator with the text
\* behind it; list(text) for the separator ""; empty pieces left out.
SplitWithSeparator(t, s, e, separator) ==
    LET cuts == IF separator = <<>>
                THEN [j \in 1..(e - s + 1) |-> s + j - 1]
                ELSE <<s>> \o MatchStarts(t, s, e, separator) \o <<e>>
        pieces == [j \in 1..(Len(cuts) - 1) |-> [start |-> cuts[j], end |-> cuts[j + 1]]]
    IN  SelectSeq(pieces, LAMBDA piece : PieceLen(piece) > 0)

\* A total that counts the pieces, not their characters.
TotalOfPieces(current_doc) == Len(current_doc)

\* total: the length of the pieces of current_doc (they follow one another
\* in the text and are joined by "").
Total(current_doc) ==
    IF current_doc = <<>> THEN 0
    ELSE current_doc[Len(current_doc)].end - current_doc[1].start

\* A _join_docs that does not strip: the pieces joined, as they are.
JoinDocsWithoutStrip(t, current_doc) ==
    IF current_doc = <<>> THEN <<>>
    ELSE LET s == current_doc[1].start
             e == current_doc[Len(current_doc)].end
         IN  << [text |-> Slice(t, s, e), start |-> s, end |-> e,
                 window_start |-> s, window_end |-> e] >>

\* _join_docs: the pieces joined and stripped; None (no chunk) when nothing
\* is left.  A chunk records its text, the range [start, end) of the text
\* it is, and the range the pieces covered before the strip.
JoinDocs(t, current_doc) ==
    IF current_doc = <<>> THEN <<>>
    ELSE LET s == current_doc[1].start
             e == current_doc[Len(current_doc)].end
             inner == {p \in s..(e - 1) : ~IsSpace(t[p + 1])}
         IN  IF inner = {} THEN <<>>
             ELSE LET first == CHOOSE p \in inner : \A q \in inner : p <= q
                      last_char == CHOOSE p \in inner : \A q \in inner : q <= p
                  IN  << [text |-> Slice(t, first, last_char + 1), start |-> first,
                          end |-> last_char + 1, window_start |-> s, window_end |-> e] >>

\* A loop that drops no piece: the next chunk starts where this one did.
PopFrontKeepsAll(current_doc, len, size, overlap) == current_doc

\* while total > chunk_overlap or (total + _len > chunk_size and total > 0):
\*     drop the first piece of current_doc
RECURSIVE PopFront(_, _, _, _)
PopFront(current_doc, len, size, overlap) ==
    IF Total(current_doc) > overlap
       \/ (Total(current_doc) + len > size /\ Total(current_doc) > 0)
    THEN PopFront(Tail(current_doc), len, size, overlap)
    ELSE current_doc

\* The loop of _merge_splits from piece k on.
RECURSIVE MergeLoop(_, _, _, _, _, _, _)
MergeLoop(t, splits, size, overlap, k, current_doc, docs) ==
    IF k > Len(splits)
    THEN [docs |-> docs, current_doc |-> current_doc]
    ELSE LET d == splits[k]
         IN  IF Total(current_doc) + PieceLen(d) > size /\ current_doc # <<>>
             THEN MergeLoop(t, splits, size, overlap, k + 1,
                            Append(PopFront(current_doc, PieceLen(d), size, overlap), d),
                            docs \o JoinDocs(t, current_doc))
             ELSE MergeLoop(t, splits, size, overlap, k + 1, Append(current_doc, d), docs)

\* A _merge_splits that returns without the pieces left in current_doc.
MergeSplitsWithoutRest(t, splits, size, overlap) ==
    MergeLoop(t, splits, size, overlap, 1, <<>>, <<>>).docs

\* _merge_splits(splits, ""): the chunks of the loop, then the chunk of the
\* pieces left in current_doc.
MergeSplits(t, splits, size, overlap) ==
    LET r == MergeLoop(t, splits, size, overlap, 1, <<>>, <<>>)
    IN  r.docs \o JoinDocs(t, r.current_doc)

\* A piece as long as chunk_size with no separator left to split it by is a
\* chunk as it stands.
WholePiece(t, piece) ==
    [text |-> Slice(t, piece.start, piece.end), start |-> piece.start, end |-> piece.end,
     window_start |-> piece.start, window_end |-> piece.end]

\* The first separator from place i of the list on that is "" or occurs in
\* text[s:e].
SeparatorIndex(t, s, e, i) ==
    CHOOSE j \in i..Len(Separators) :
        /\ Separators[j] = <<>> \/ MatchStarts(t, s, e, Separators[j]) # <<>>
        /\ \A x \in i..(j - 1) :
              Separators[x] # <<>> /\ MatchStarts(t, s, e, Separators[x]) = <<>>

\* _split_text(text[s:e], separators[i:]) and its loop over the pieces from
\* piece k on: pieces shorter than chunk_size are collected and merged,
\* a longer one is split by the separators that follow.
RECURSIVE SplitRange(_, _, _, _, _, _)
RECURSIVE SplitLoop(_, _, _, _, _, _, _, _)
SplitLoop(t, splits, k, good_splits, final_chunks, i, size, overlap) ==
    LET merged == IF good_splits = <<>> THEN <<>>
                  ELSE MergeSplits(t, good_splits, size, overlap)
    IN  IF k > Len(splits)
        THEN final_chunks \o merged
        ELSE IF PieceLen(splits[k]) < size
        THEN SplitLoop(t, splits, k + 1, Append(good_splits, splits[k]), final_chunks,
                       i, size, overlap)
        ELSE SplitLoop(t, splits, k + 1, <<>>,
                       final_chunks \o merged
                         \o (IF i = Len(Separators)
                             THEN <<WholePiece(t, splits[k])>>
                             ELSE SplitRange(t, splits[k].start, splits[k].end, i + 1,
                                             size, overlap)),
                       i, size, overlap)

SplitRange(t, s, e, i, size, overlap) ==
    LET j == SeparatorIndex(t, s, e, i)
    IN  SplitLoop(t, SplitWithSeparator(t, s, e, Separators[j]), 1, <<>>, <<>>, j,
                  size, overlap)

\* self.text_splitter.split_text(text)
SplitText(t, size, overlap) == SplitRange(t, 0, Len(t), 1, size, overlap)

\* The inputs: every text up to MaxTextLen with chunk_size up to
\* MaxChunkSize and 0 < chunk_overlap < chunk_size, and the text of the
\* scenario with chunk_size 20 and chunk_overlap 5.
ScenarioChunkSize == 20
ScenarioChunkOverlap == 5

InitSplitter ==
    /\ use_mock = TRUE
    /\ dup_raises = FALSE
    /\ mock_vectors = <<>>
    /\ mock_documents = <<>>
    /\ collection = <<>>
    /\ running = Idle
    /\ deleted = {}
    /\ writes = 0
    /\ last = NoCall
    /\ document_store = <<>>
    /\ issued = {}
    /\ response = NoResponse
    /\ mock_document_tags = <<>>
    /\ doc_chunks = <<>>
    /\ \/ /\ doc_text \in Texts
          /\ chunk_size \in 2..MaxChunkSize
          /\ chunk_overlap \in 1..(chunk_size - 1)
       \/ /\ doc_text = ScenarioText
          /\ chunk_size = ScenarioChunkSize
          /\ chunk_overlap = ScenarioChunkOverlap

\* _split_text(text) returns.
SplitTextCall ==
    /\ last = NoCall
    /\ doc_chunks' = SplitText(doc_text, chunk_size, chunk_overlap)
    /\ last' = Returned("split", "", Len(doc_chunks'), TRUE, "", "", FALSE)
    /\ UNCHANGED <<use_mock, dup_raises, mock_vectors, mock_documents, collection,
                   running, deleted, writes, handler_vars, doc_text, chunk_size,
                   chunk_overlap>>

NextSplitter == SplitTextCall

SpecSplitter == InitSplitter /\ [][NextSplitter]_vars

\* The positions of the text that chunk j covers.
Covered(j) == doc_chunks[j].start..(doc_chunks[j].end - 1)

\* The positions of the text that hold a character other than whitespace.
InkPositions == {p \in 0..(Len(doc_text) - 1) : ~IsSpace(doc_text[p + 1])}

Stripped(t) ==
    LET ink == {p \in 1..Len(t) : ~IsSpace(t[p])}
    IN  IF ink = {} THEN <<>>
        ELSE SubSeq(t, CHOOSE p \in ink : \A q \in ink : p <= q,
                       CHOOSE p \in ink : \A q \in ink : q <= p)

\* C17 as claimed: a text shorter than chunk_size gives exactly one chunk,
\* the whole text stripped, and the empty text gives no chunk.
C17_ShortTextIsOneChunk ==
    (last.op = "split" /\ Len(doc_text) < chunk_size) =>
        IF doc_text = <<>>
        THEN doc_chunks = <<>>
        ELSE Len(doc_chunks) = 1 /\ doc_chunks[1].text = Stripped(doc_text)

\* C17 amended: a text shorter than chunk_size that holds a character other
\* than whitespace gives exactly one chunk, the whole text stripped; the
\* empty text and a text of whitespace alone give no chunk.
C17_ShortInkedTextIsOneChunk ==
    (last.op = "split" /\ Len(doc_text) < chunk_size) =>
        IF Stripped(doc_text) = <<>>
        THEN doc_chunks = <<>>
        ELSE Len(doc_chunks) = 1 /\ doc_chunks[1].text = Stripped(doc_text)

\* A text shorter than chunk_size with whitespace before and behind its
\* other characters, split into its one chunk.
C17_Witness ==
    /\ last.op = "split"
    /\ Len(doc_text) < chunk_size
    /\ Len(doc_chunks) = 1
    /\ doc_chunks[1].start > 0
    /\ doc_chunks[1].end < Len(doc_text)

\* C18: with chunk_size 20 and chunk_overlap 5, the first chunk of the
\* scenario text is "The cat sat.", the pieces of every later chunk start 5
\* characters before the end of those of the chunk before it, and the last
\* chunk holds "flew.".
C18_ScenarioChunks ==
    (/\ last.op = "split"
     /\ doc_text = ScenarioText
     /\ chunk_size = ScenarioChunkSize
     /\ chunk_overlap = ScenarioChunkOverlap)
    => /\ doc_chunks # <<>>
       /\ doc_chunks[1].text = Slice(ScenarioText, 0, 12)
       /\ \A j \in 2..Len(doc_chunks) :
             doc_chunks[j].window_start = doc_chunks[j - 1].window_end - chunk_overlap
       /\ doc_chunks[Len(doc_chunks)].start <= 35
       /\ doc_chunks[Len(doc_chunks)].end = 40

(***************************************************************************)
(* The admin endpoints and the endpoints of one document.  A request       *)
(* carries a token; get_user_id_from_token gives the user_id of a valid    *)
(* one.  A handler runs from its first to its last line without an await   *)
(* between two accesses of the stores.                                     *)
(***************************************************************************)
\* ADMIN_USER_IDS
AdminUserIds == {"admin", "testuser"}

\* The user ids of the valid tokens of the requests.
UserIds == {"admin", "regular_user"}

\* is_admin_user
IsAdminUser(user_id) == user_id \in AdminUserIds

\* admin_required(user_id): the HTTPException it raises, as str() shows it
\* ("" when it returns).
AdminRequired(user_id) ==
    IF ~IsAdminUser(user_id)
    THEN "403: Insufficient permissions. Admin access required."
    ELSE ""

AdminEndpoints == {"admin_stats", "admin_users", "admin_documents"}

\* [doc['id'] for doc in documents]
DocumentIdsOf(docs) == [j \in 1..Len(docs) |-> docs[j].id]

\* What an admin endpoint returns to an admin: the documents of the
\* metadata store, their number (total_documents), the fixed list of users.
AdminData(endpoint, docs) ==
    CASE endpoint = "admin_documents" -> DocumentIdsOf(docs)
      [] endpoint = "admin_stats" -> <<Len(docs)>>
      [] OTHER -> <<"demo_user", "admin", "testuser">>

\* GET /admin/stats, /admin/users, /admin/documents
AdminGet(endpoint, user_id) ==
    LET request == [user_id |-> user_id]
    IN  /\ response' =
              IF AdminRequired(user_id) # ""
              THEN Failure(endpoint, request, AdminRequired(user_id), "admin_required")
              ELSE Success(endpoint, request, "", AdminData(endpoint, document_store))
        /\ UNCHANGED <<use_mock, dup_raises, mock_vectors, mock_documents, collection,
                       running, deleted, writes, last, document_store, issued,
                       mock_document_tags, splitter_vars>>

\* DELETE /admin/documents/{document_id}: admin_required, then the body of
\* DELETE /documents/{document_id}.
AdminDeleteDocument(user_id, document_id, fault, store_fails) ==
    LET request == [user_id |-> user_id, document_id |-> document_id]
        r == DeleteDocumentResult(Store, use_mock, document_id, fault)
        denied == AdminRequired(user_id) # ""
        missing == ~HasDocument(document_store, document_id)
    IN  /\ writes < MaxRequests
        /\ writes' = writes + 1
        /\ (use_mock \/ denied \/ missing) => (fault = "none" /\ ~store_fails)
        /\ IF denied
           THEN /\ response' = Failure("admin_delete", request, AdminRequired(user_id),
                                       "admin_required")
                /\ UNCHANGED <<mock_vectors, mock_documents, collection, document_store>>
           ELSE IF missing
           THEN /\ response' = Failure("admin_delete", request, "404: Document not found",
                                       "get_document")
                /\ UNCHANGED <<mock_vectors, mock_documents, collection, document_store>>
           ELSE /\ SetStore(r.st)
                /\ IF store_fails
                   THEN /\ response' = Failure("admin_delete", request,
                                               "500: Failed to delete document",
                                               "document_store")
                        /\ UNCHANGED document_store
                   ELSE /\ response' = Success("admin_delete", request, "", <<>>)
                        /\ document_store' = RemoveDocument(document_store, document_id)
        /\ UNCHANGED <<use_mock, dup_raises, running, deleted, last, issued,
                       mock_document_tags, splitter_vars>>

\* The endpoints that read one document and answer from its record.
DocumentEndpoints == {"get_document", "document_tags", "insights", "related", "ask"}

\* mock_tags: the ids of the tags, in the order of the list.
MockTags == <<"tag-1", "tag-2", "tag-3", "tag-4", "tag-5">>

\* valid_tag_ids = [tag["id"] for tag in mock_tags]
ValidTagIds == {MockTags[j] : j \in 1..Len(MockTags)}

\* The tag ids of the requests: two of mock_tags and one that is not.
TagIds == {"tag-1", "tag-2", "tag-9"}

\* The longest tag_ids list of a request, and the length of
\* mock_document_tags up to which a request adds to it.
MaxTagIds == 2
MaxPairs == 4

\* The lists tag_ids of the requests, the empty one and ones that name a tag
\* twice among them.
RECURSIVE TagIdListsOfLen(_)
TagIdListsOfLen(n) ==
    IF n = 0 THEN {<<>>}
    ELSE {Append(l, t) : l \in TagIdListsOfLen(n - 1), t \in TagIds}

TagIdLists == UNION {TagIdListsOfLen(n) : n \in 0..MaxTagIds}

\* (document_id, tag_id) in mock_document_tags
HasPair(tags, document_id, tag_id) ==
    \E j \in 1..Len(tags) : tags[j] = <<document_id, tag_id>>

\* tag_ids = [tag_id for doc_id, tag_id in mock_document_tags if doc_id == document_id]
\* document_tags = [tag for tag in mock_tags if tag["id"] in tag_ids]
DocumentTags(tags, document_id) ==
    SelectSeq(MockTags, LAMBDA tag_id : HasPair(tags, document_id, tag_id))

\* [doc for doc in all_docs if doc['id'] != document_id]
RelatedDocuments(docs, document_id) ==
    DocumentIdsOf(SelectSeq(docs, LAMBDA doc : doc.id # document_id))

\* GET /documents/{id}, /documents/{id}/tags, /documents/{id}/insights,
\* /documents/{id}/related and POST /documents/{id}/ask.
GetDocumentView(endpoint, document_id) ==
    LET request == [document_id |-> document_id]
        body == CASE endpoint = "document_tags" -> DocumentTags(mock_document_tags, document_id)
                  [] endpoint = "related" -> RelatedDocuments(document_store, document_id)
                  [] OTHER -> <<>>
    IN  /\ response' =
              IF ~HasDocument(document_store, document_id)
              THEN Failure(endpoint, request, "404: Document not found", "get_document")
              ELSE Success(endpoint, request, document_id, body)
        /\ UNCHANGED <<use_mock, dup_raises, mock_vectors, mock_documents, collection,
                       running, deleted, writes, last, document_store, issued,
                       mock_document_tags, splitter_vars>>

\* The first tag id of the list that is not in valid_tag_ids ("" for none).
FirstInvalidTagId(tag_ids) ==
    LET invalid == SelectSeq(tag_ids, LAMBDA tag_id : tag_id \notin ValidTagIds)
    IN  IF invalid = <<>> THEN "" ELSE Head(invalid)

\* An append that does not look whether the pair is in the list.
AppendPairUnchecked(tags, document_id, tag_id) == Append(tags, <<document_id, tag_id>>)

\* if (document_id, tag_id) not in mock_document_tags:
\*     mock_document_tags.append((document_id, tag_id))
AppendPair(tags, document_id, tag_id) ==
    IF ~HasPair(tags, document_id, tag_id)
    THEN Append(tags, <<document_id, tag_id>>)
    ELSE tags

\* for tag_id in tag_ids: ...
RECURSIVE AppendPairs(_, _, _)
AppendPairs(tags, document_id, tag_ids) ==
    IF tag_ids = <<>> THEN tags
    ELSE AppendPairs(AppendPair(tags, document_id, Head(tag_ids)), document_id,
                     Tail(tag_ids))

\* mock_document_tags.remove((document_id, tag_id)): the first entry equal
\* to the pair is taken out.
RemovePair(tags, document_id, tag_id) ==
    LET j == CHOOSE i \in 1..Len(tags) :
                 /\ tags[i] = <<document_id, tag_id>>
                 /\ \A x \in 1..(i - 1) : tags[x] # <<document_id, tag_id>>
    IN  SubSeq(tags, 1, j - 1) \o SubSeq(tags, j + 1, Len(tags))

\* POST /documents/{document_id}/tags
AddTagsToDocument(document_id, tag_ids) ==
    LET request == [document_id |-> document_id]
    IN  /\ Len(mock_document_tags) + Len(tag_ids) <= MaxPairs
        /\ IF ~HasDocument(document_store, document_id)
           THEN /\ response' = Failure("add_tags", request, "404: Document not found",
                                       "get_document")
                /\ UNCHANGED mock_document_tags
           ELSE IF FirstInvalidTagId(tag_ids) # ""
           THEN /\ response' = Failure("add_tags", request,
                                       "400: Invalid tag ID: " \o FirstInvalidTagId(tag_ids),
                                       "tag_ids")
                /\ UNCHANGED mock_document_tags
           ELSE /\ response' = Success("add_tags", request, "", <<>>)
                /\ mock_document_tags' = AppendPairs(mock_document_tags, document_id, tag_ids)
        /\ UNCHANGED <<use_mock, dup_raises, mock_vectors, mock_documents, collection,
                       running, deleted, writes, last, document_store, issued,
                       splitter_vars>>

\* DELETE /documents/{document_id}/tags/{tag_id}
RemoveTagFromDocument(document_id, tag_id) ==
    LET request == [document_id |-> document_id]
    IN  /\ IF ~HasDocument(document_store, document_id)
           THEN /\ response' = Failure("remove_tag", request, "404: Document not found",
                                       "get_document")
                /\ UNCHANGED mock_document_tags
           ELSE IF tag_id \notin ValidTagIds
           THEN /\ response' = Failure("remove_tag", request,
                                       "400: Invalid tag ID: " \o tag_id, "tag_id")
                /\ UNCHANGED mock_document_tags
           ELSE /\ response' = Success("remove_tag", request, "", <<>>)
                /\ mock_document_tags' =
                       IF HasPair(mock_document_tags, document_id, tag_id)
                       THEN RemovePair(mock_document_tags, document_id, tag_id)
                       ELSE mock_document_tags
        /\ UNCHANGED <<use_mock, dup_raises, mock_vectors, mock_documents, collection,
                       running, deleted, writes, last, document_store, issued,
                       splitter_vars>>

\* GET /tags/{tag_id}/documents: the documents of the pairs of the tag that
\* the metadata store holds.
GetDocumentsByTag(tag_id) ==
    LET request == [tag_id |-> tag_id]
        pairs == SelectSeq(mock_document_tags, LAMBDA pair : pair[2] = tag_id)
        documents == SelectSeq([j \in 1..Len(pairs) |-> pairs[j][1]],
                               LAMBDA doc_id : HasDocument(document_store, doc_id))
    IN  /\ response' =
              IF tag_id \notin ValidTagIds
              THEN Failure("documents_by_tag", request, "400: Invalid tag ID: " \o tag_id,
                           "tag_id")
              ELSE Success("documents_by_tag", request, "", documents)
        /\ UNCHANGED <<use_mock, dup_raises, mock_vectors, mock_documents, collection,
                       running, deleted, writes, last, document_store, issued,
                       mock_document_tags, splitter_vars>>

\* The uploads: files of no chunk and of the one chunk "A.".
NextRequests ==
    \/ \E e \in Extensions, cs \in {ChunksFrom("A.", n) : n \in 0..1},
          fault \in {"none", "extraction", "store"}, f \in 0..1 :
              UploadDocument(e, cs, fault, f)
    \/ \E d \in DocumentIds, fault \in {"none", "get", "delete"}, sf \in BOOLEAN :
          DeleteDocumentHandler(d, fault, sf)
    \/ \E endpoint \in AdminEndpoints, u \in UserIds : AdminGet(endpoint, u)
    \/ \E u \in UserIds, d \in DocumentIds, fault \in {"none", "get", "delete"},
          sf \in BOOLEAN : AdminDeleteDocument(u, d, fault, sf)
    \/ \E endpoint \in DocumentEndpoints, d \in DocumentIds : GetDocumentView(endpoint, d)
    \/ \E d \in DocumentIds : GetDocumentSummary(d)
    \/ \E d \in DocumentIds, l \in TagIdLists : AddTagsToDocument(d, l)
    \/ \E d \in DocumentIds, t \in TagIds : RemoveTagFromDocument(d, t)
    \/ \E t \in TagIds : GetDocumentsByTag(t)
    \/ Restart

SpecRequests == Init /\ [][NextRequests]_vars

\* C21: a request to an admin endpoint with the valid token of a user who is
\* not in the admin list is answered with status 403, and never with the
\* admin data.
C21_NonAdminGets403 ==
    (/\ response.handler \in AdminEndpoints \cup {"admin_delete"}
     /\ response.request.user_id \notin AdminUserIds)
    => /\ response.status_code = 403
       /\ response.body = <<>>

\* C22: after DELETE /documents/{id} or DELETE /admin/documents/{id} has
\* answered with success, the index holds no chunk of the document, also
\* when delete_document of the index reported failure.
C22_DeleteCascadesToChunks ==
    (/\ response.handler \in {"delete", "admin_delete"}
     /\ response.status_code = 200)
    => StoredIds(Store, use_mock, response.request.document_id) = {}

\* The requests that name a document: the handler looks it up first.
NamesDocument(resp) ==
    resp.handler \in DocumentEndpoints \cup {"summary", "delete", "add_tags", "remove_tag"}

\* C28: a request that names a document_id the metadata store does not hold
\* is answered with status 404 "Document not found", and a request that
\* names an unknown tag id with status 400: the status raised inside the
\* handler is the status of the response.
C28_RaisedStatusReachesClient ==
    /\ (NamesDocument(response) /\ response.raised_in = "get_document")
          => (response.status_code = 404 /\ response.detail = "Document not found")
    /\ response.raised_in \in {"tag_ids", "tag_id"} => response.status_code = 400

\* The tag requests alone, on documents uploaded, deleted and lost in a
\* restart: uploads of a file of the one chunk "A.", deletes that no store
\* fault disturbs.
NextTags ==
    \/ UploadDocument(".txt", ChunksFrom("A.", 1), "none", 1)
    \/ \E d \in DocumentIds : DeleteDocumentHandler(d, "none", FALSE)
    \/ \E d \in DocumentIds, l \in TagIdLists : AddTagsToDocument(d, l)
    \/ \E d \in DocumentIds, t \in TagIds : RemoveTagFromDocument(d, t)
    \/ \E t \in TagIds : GetDocumentsByTag(t)
    \/ Restart

SpecTags == Init /\ [][NextTags]_vars

\* No (document_id, tag_id) pair stands twice in the list.
NoPairTwice(tags) ==
    \A i, j \in 1..Len(tags) : tags[i] = tags[j] => i = j

\* C30: adding tags is all-or-nothing and free of duplicates: a request
\* POST /documents/{id}/tags with a tag id that is not a known tag adds no
\* pair, and after every add-tag and remove-tag request no pair stands
\* twice in mock_document_tags; a request whose tag ids are all known
\* leaves every one of its pairs in the list.
C30_TagsAllOrNothingNoDuplicates ==
    [][/\ NoPairTwice(mock_document_tags')
       /\ \A d \in DocumentIds, l \in TagIdLists :
             AddTagsToDocument(d, l)
             => /\ FirstInvalidTagId(l) # "" => mock_document_tags' = mock_document_tags
                /\ response'.status_code = 200
                     => \A j \in 1..Len(l) : HasPair(mock_document_tags', d, l[j])]_vars

\* A request to add tags was turned down for an unknown tag id while the
\* list holds pairs of that document from the requests before.
C30_Witness ==
    /\ response.handler = "add_tags"
    /\ response.raised_in = "tag_ids"
    /\ Len(mock_document_tags) >= 2
    /\ \E j \in 1..Len(mock_document_tags) :
          mock_document_tags[j][1] = response.request.document_id

(***************************************************************************)
(* Repeated searches.  The calls of search are recorded with what they     *)
(* were asked and what they returned, between add_document and             *)
(* delete_document calls that no storage fault disturbs.                   *)
(***************************************************************************)
\* search(query, limit, filter_criteria) returns; again holds when the call
\* before it was the same search.
SearchCall(query, limit, filter_criteria) ==
    LET r == SearchResult(Store, use_mock, query, limit, filter_criteria)
        request == <<query, limit, filter_criteria>>
    IN  /\ last' = [request |-> request, results |-> r.results]
                     @@ Returned("search", "", Len(r.results), TRUE, r.raised, "",
                                 last.op = "search" /\ last.request = request)
        /\ UNCHANGED <<handler_vars, splitter_vars, use_mock, dup_raises, mock_vectors,
                       mock_documents, collection, running, deleted, writes>>

NextSearches ==
    \/ \E d \in DocumentIds, cs \in ChunkLists : AddDocument(d, cs, TxtMetadata, Len(cs))
    \/ \E d \in DocumentIds : DeleteDocument(d, "none")
    \/ \E q \in Queries, k \in Limits, f \in Filters : SearchCall(q, k, f)

SpecSearches == Init /\ [][NextSearches]_vars

RECURSIVE TextOfLen(_)
TextOfLen(n) ==
    IF n = 0 THEN ""
    ELSE IF n % 2 = 0 THEN LET half == TextOfLen(n \div 2) IN half \o half
    ELSE "a" \o TextOfLen(n - 1)

SnippetTexts ==
    {"A.", "B."} \cup {TextOfLen(n) : n \in (SnippetLength - 1)..(SnippetLength + 1)}

\* The chunks of the uploaded files: one chunk, or "A." and a chunk longer
\* than the snippet.
SnippetChunkLists ==
    {<<t>> : t \in SnippetTexts} \cup {<<"A.", TextOfLen(SnippetLength + 1)>>}

NextSnippets ==
    \/ \E cs \in SnippetChunkLists : UploadDocument(".txt", cs, "none", Len(cs))
    \/ \E q \in Queries, k \in Limits : SearchDocuments(q, k)
    \/ \E d \in DocumentIds, fault \in {"none", "get"} : DeleteDocumentHandler(d, fault, FALSE)

SpecSnippets == Init /\ [][NextSnippets]_vars

\* The hits of a search whose document the metadata store holds, in the
\* order of the search.
KnownHits(query, limit) ==
    SelectSeq(SearchResult(Store, use_mock, query, limit, NoFilter).results,
              LAMBDA result : HasDocument(document_store, result.document_id))

\* The snippet is the first characters of the content, SnippetLength of
\* them at most, and the marker "..." behind them.
IsSnippetOf(snippet, content) ==
    LET n == IF Len(content) < SnippetLength THEN Len(content) ELSE SnippetLength
    IN  /\ Len(snippet) = n + 3
        /\ SubSeq(snippet, 1, n) = SubSeq(content, 1, n)
        /\ SubSeq(snippet, n + 1, n + 3) = "..."

\* C24: for every hit of POST /search the snippet is the first 200
\* characters of the chunk text followed by "...", so it is at most 203
\* characters long, and the hits are returned in the order in which the
\* index returned them.
C24_SnippetIsBoundedPrefix ==
    [][\A q \in Queries, k \in Limits :
          SearchDocuments(q, k)
          => LET hits == KnownHits(q, k)
                 body == response'.body
             IN  /\ response'.status_code = 200
                 /\ Len(body) = Len(hits)
                 /\ \A j \in 1..Len(body) :
                       /\ body[j].document_id = hits[j].document_id
                       /\ body[j].similarity_score = hits[j].similarity_score
                       /\ IsSnippetOf(body[j].snippet, hits[j].content)
                       /\ Len(body[j].snippet) <= SnippetLength + 3]_vars

\* POST /search returned two hits or more, the snippet of one of them cut
\* from a chunk longer than the snippet.
C24_Witness ==
    /\ response.handler = "search"
    /\ Len(response.body) >= 2
    /\ \E j \in 1..Len(response.body) :
          /\ Len(response.body[j].snippet) = SnippetLength + 3
          /\ \E i \in 0..MaxChunks :
                LET c == ChunkAt(Store, use_mock, response.body[j].document_id, i)
                IN  c.present /\ Len(c.content) > SnippetLength

\* C25: for 0 < chunk_overlap < chunk_size the chunker moves forward
\* through the text with every chunk it emits and so comes to an end: the
\* pieces of a chunk start behind the start of the pieces of the chunk
\* before it, also when a period stands fewer than chunk_overlap characters
\* behind that start, and there are no more chunks than characters.
C25_ChunkerMovesForward ==
    last.op = "split" =>
        /\ Len(doc_chunks) <= Len(doc_text)
        /\ \A j \in 1..(Len(doc_chunks) - 1) :
              doc_chunks[j].window_start < doc_chunks[j + 1].window_start

\* A text with a period fewer than chunk_overlap characters behind the
\* start of a chunk, split into three chunks or more.
C25_Witness ==
    /\ last.op = "split"
    /\ Len(doc_chunks) >= 3
    /\ \E j \in 1..(Len(doc_chunks) - 1), p \in 0..(Len(doc_text) - 1) :
          /\ doc_text[p + 1] = "."
          /\ doc_chunks[j].window_start < p
          /\ p < doc_chunks[j].window_start + chunk_overlap

\* C26: for 0 < chunk_overlap < chunk_size every chunk has at most
\* chunk_size characters and is not empty after trimming: it is the text
\* of its range, one character or more, with no whitespace at either end;
\* also when a period is the last character of the range.
C26_ChunkWithinSizeAndNotEmpty ==
    last.op = "split" =>
        \A j \in 1..Len(doc_chunks) :
            /\ Len(doc_chunks[j].text) <= chunk_size
            /\ Len(doc_chunks[j].text) >= 1
            /\ doc_chunks[j].text = Stripped(doc_chunks[j].text)
            /\ doc_chunks[j].end - doc_chunks[j].start = Len(doc_chunks[j].text)

\* A chunk of exactly chunk_size characters whose last character is a
\* period, and a chunk stripped of whitespace.
C26_Witness ==
    /\ last.op = "split"
    /\ \E j \in 1..Len(doc_chunks) :
          /\ Len(doc_chunks[j].text) = chunk_size
          /\ doc_chunks[j].text[chunk_size] = "."
    /\ \E j \in 1..Len(doc_chunks) :
          doc_chunks[j].window_end - doc_chunks[j].window_start > Len(doc_chunks[j].text)

(***************************************************************************)
(* The order of embedding and writing within one add_document.             *)
(***************************************************************************)
\* The number of chunks of the add in flight whose embedding has been
\* computed: the mock computes the embedding of chunk i in iteration i, just
\* before it writes it to mock_vectors; ChromaDB computes the embedding of
\* the one document of a collection.add inside that call.
EmbeddingsComputed(run) == IF run.phase = "document" THEN run.i + 1 ELSE run.i

\* The number of writes to the store the add in flight has made: two for
\* each chunk in the mock (mock_vectors, mock_documents), one for each
\* collection.add.
WritesMade(run) ==
    CASE run.phase = "vector" -> 2 * run.i
      [] run.phase = "document" -> 2 * run.i + 1
      [] OTHER -> run.i

\* C27: within one add_document all embeddings of the chunks are computed
\* before the first chunk is written to the index: once the call has
\* written to the store, no embedding is left to compute.
C27_EmbedBeforeFirstWrite ==
    (running.op = "add" /\ WritesMade(running) >= 1)
    => EmbeddingsComputed(running) = Len(running.chunks)

\* The vectors the mock holds under the ids of the document, by chunk index.
VectorsOf(st, document_id) ==
    [i \in 0..MaxChunks |->
        IF DictHas(st.mv, ChunkId(document_id, i))
        THEN DictGet(st.mv, ChunkId(document_id, i))
        ELSE <<>>]

\* C29: add_document(D, ...) and delete_document(D) change only chunks of
\* D: for every other document E the chunks stored for E, their texts,
\* metadata and vectors are after the call what they were before it.
C29_OtherDocumentsUntouched ==
    [][\A d \in DocumentIds :
          (\/ \E cs \in ChunkLists, m \in Metadatas, f \in 0..MaxChunks :
                 AddDocument(d, cs, m, f)
           \/ \E fault \in {"none", "get", "delete"} : DeleteDocument(d, fault))
          => \A e \in DocumentIds \ {d} :
                /\ ChunksOf(Store, use_mock, e)' = ChunksOf(Store, use_mock, e)
                /\ VectorsOf(Store, e)' = VectorsOf(Store, e)]_vars

====
